---- MODULE Spec2Model ----
(***************************************************************************)
(* Geospatial anchoring and heading calibration of the campus AR app:      *)
(* the App component of campus-ar (src/campus-ar/src/App.jsx) and its      *)
(* second build (src/unnamed/part_000), with the hook useDeviceHeading,    *)
(* the geolocation effect, the heading capture effect and the render.      *)
(*                                                                         *)
(* React is modelled as it schedules this component: a state update marks  *)
(* the component dirty; Render commits a new output and decides which      *)
(* passive effects have changed dependencies; FlushEffects runs them (all  *)
(* clean-ups first, then the effect bodies in declaration order) before    *)
(* the next render.  Browser events (orientation samples, the geolocation  *)
(* callbacks) are handled one at a time and may arrive between any two of  *)
(* these steps.                                                            *)
(*                                                                         *)
(* Angles are whole degrees.  Coordinates are integers in units of 1e-7    *)
(* degree, offsets are integers in millimetres.                            *)
(***************************************************************************)
EXTENDS Integers, Sequences, FiniteSets, TLC

VARIABLES
    build,          \* which of the two builds of App runs: "App" or "part_000"
    hookHeading,    \* useDeviceHeading: const [initialHeading, setInitialHeading]
    appHeading,     \* App: const [initialHeading, setInitialHeading]
    origin,         \* App: const [origin, setOrigin]
    objects,        \* App: const [objects, setObjects]
    listeners,      \* window's registered orientation listeners
    effectRuns,     \* how many times the orientation effect body has run
    geoStatus,      \* the position request: "idle", "pending", "success", "error"
    geoRequests,    \* how many times getCurrentPosition has been called
    mounted,        \* "no" before the first render, "yes", "gone" after teardown
    dirty,          \* a state update is waiting for a re-render
    pendingEffects, \* passive effects the last commit scheduled
    ui,             \* the committed output of the last render
    lastOp,         \* the step taken last and its input (history)
    projection      \* a direct call of latLonToOffset: arguments and result

vars == <<build, hookHeading, appHeading, origin, objects, listeners, effectRuns,
          geoStatus, geoRequests, mounted, dirty, pendingEffects, ui, lastOp,
          projection>>

-----------------------------------------------------------------------------
(* Bounds of the model *)

\* compass headings a sample may report: 0, 45, ..., 45 * MaxCompassIdx
MaxCompassIdx == 2
\* alpha angles a sample may report: 350, 0, 10, ... (350 + 10 * i) mod 360
MaxAlphaIdx == 2
\* fixes the device may report: WORLD_ORIGIN displaced by 0 .. MaxFixIdx steps
MaxFixIdx == 1
\* cap on the runs of the orientation effect (the program itself needs two)
MaxEffectRuns == 3
\* origin latitudes of the direct projector calls: 0, +-15, ... +-15 * MaxProbeLatIdx degrees
MaxProbeLatIdx == 4
\* target displacements of the direct projector calls: up to MaxProbeStep steps of 0.00005 degree
MaxProbeStep == 2

-----------------------------------------------------------------------------
(* JavaScript values: null, undefined, NaN and numbers *)

NULL == [t |-> "null", v |-> 0]
UNDEF == [t |-> "undefined", v |-> 0]
NaN == [t |-> "NaN", v |-> 0]
Num(n) == [t |-> "num", v |-> n]
IsNum(x) == x.t = "num"

\* ToBoolean: null, undefined, NaN and 0 are falsy
Truthy(x) == x.t = "num" /\ x.v # 0

\* x || 0, as a number of degrees
OrZero(x) == IF Truthy(x) THEN x.v ELSE 0

\* 360 - x with ToNumber(null) = 0 and ToNumber(undefined) = NaN
Minus360(x) ==
    CASE x.t = "num" -> Num(360 - x.v)
      [] x.t = "null" -> Num(360)
      [] OTHER -> NaN

-----------------------------------------------------------------------------
(* Orientation samples *)

Sources == {"deviceorientationabsolute", "deviceorientation"}

CompassHeadings == {45 * i : i \in 0..MaxCompassIdx}
AlphaAngles == {(350 + 10 * i) % 360 : i \in 0..MaxAlphaIdx}

\* a DeviceOrientationEvent as the handler reads it: the iOS field may be
\* absent, alpha may be absent, null (sensor not ready) or an angle
Samples ==
    [webkitCompassHeading : {UNDEF} \cup {Num(h) : h \in CompassHeadings},
     alpha : {UNDEF, NULL} \cup {Num(a) : a \in AlphaAngles}]

NoSample == [webkitCompassHeading |-> UNDEF, alpha |-> UNDEF]

\* (a variant that takes alpha without correcting its sense of rotation)
CompassAlphaAsIs(e) ==
    IF Truthy(e.webkitCompassHeading) THEN e.webkitCompassHeading
    ELSE IF e.alpha # NULL THEN e.alpha
    ELSE UNDEF

\* handleOrientation, first half: the compass angle of a sample
Compass(e) ==
    IF Truthy(e.webkitCompassHeading) THEN e.webkitCompassHeading
    ELSE IF e.alpha # NULL THEN Minus360(e.alpha)
    ELSE UNDEF

\* (a variant without the terminal-state guard)
ShouldCaptureNoGuard(compass, captured) == compass # UNDEF

\* handleOrientation, the guard: captured is the initialHeading of the render
\* whose effect created this handler
ShouldCapture(compass, captured) == compass # UNDEF /\ captured = NULL

\* a registered listener: the handler of effect run id, with the value of
\* initialHeading its closure captured
Listener(src, id, captured) == [type |-> src, id |-> id, initialHeading |-> captured]

\* the two removeEventListener calls of the handler
RemoveSelf(ls, id) == {l \in ls : l.id # id}

\* handleOrientation(e) of listener h, on the pair (heading state, listeners)
HandleOrientation(h, e, st) ==
    LET compass == Compass(e)
    IN IF ShouldCapture(compass, h.initialHeading)
       THEN [heading |-> compass, ls |-> RemoveSelf(st.ls, h.id)]
       ELSE st

\* the browser dispatches the event to the listeners of its type, in the order
\* they were added; a listener removed meanwhile is not called
RECURSIVE Dispatch(_, _, _, _)
Dispatch(ids, src, e, st) ==
    IF ids = {} THEN st
    ELSE LET i == CHOOSE j \in ids : \A k \in ids : j <= k
             hs == {l \in st.ls : l.type = src /\ l.id = i}
             st2 == IF hs = {} THEN st
                    ELSE HandleOrientation(CHOOSE l \in hs : TRUE, e, st)
         IN Dispatch(ids \ {i}, src, e, st2)

-----------------------------------------------------------------------------
(* Geodetic projection *)

\* const WORLD_ORIGIN = [12.7489708, 80.1988392], in units of 1e-7 degree
WORLD_ORIGIN == <<127489708, 801988392>>

earthRadius == 6371000

\* origin === null
NullOrigin == <<>>

\* a / b rounded toward zero, as a floating-point quotient truncates
TruncDiv(a, b) == IF a < 0 THEN -((-a) \div b) ELSE a \div b

\* earthRadius * (Math.PI / 180): metres per degree of arc, pi taken as 355/113
MetresPerDegree == ((earthRadius \div 180) * 355) \div 113

\* d * (Math.PI / 180) * earthRadius for d in 1e-7 degree, in millimetres
ArcMm(d) == TruncDiv(d * MetresPerDegree, 10000)

\* 1000 * Math.cos(lat0 * Math.PI / 180) for lat0 in 1e-7 degree, by the
\* rational approximation (180^2 - 4 d^2) / (180^2 + d^2), d in tenths of a degree
CosMilli(lat0) ==
    LET dd == TruncDiv(lat0, 1000000)
    IN (3240000 - 4 * dd * dd) \div ((3240000 + dd * dd) \div 1000)

\* (a variant with the two axes exchanged)
latLonToOffsetSwapped(lat0, lon0, lat, lon) ==
    LET dLat == lat - lat0
        dLon == lon - lon0
        x == TruncDiv(ArcMm(dLat) * CosMilli(lat0), 1000)
        z == ArcMm(dLon)
    IN <<x, 0, -z>>

\* function latLonToOffset(lat0, lon0, lat, lon): [x, 0, -z]
latLonToOffset(lat0, lon0, lat, lon) ==
    LET dLat == lat - lat0
        dLon == lon - lon0
        x == TruncDiv(ArcMm(dLon) * CosMilli(lat0), 1000)
        z == ArcMm(dLat)
    IN <<x, 0, -z>>

-----------------------------------------------------------------------------
(* Position tracking *)

\* the fixes the geolocation capability may report
Fixes == {<<WORLD_ORIGIN[1] + 500 * i, WORLD_ORIGIN[2] + 500 * i>> : i \in 0..MaxFixIdx}

GeoErrors == {"PERMISSION_DENIED", "POSITION_UNAVAILABLE"}

Entity(lat, lon, type) == [lat |-> lat, lon |-> lon, type |-> type]

\* the argument of setObjects in the success callback, per build
\* (0.00001 degree is 100 units)
Constellation(b, latitude, longitude) ==
    IF b = "App"
    THEN << Entity(latitude, longitude, "user"),
            Entity(latitude + 500, longitude, "monk"),
            Entity(latitude + 1000, longitude + 1000, "monk"),
            Entity(latitude + 100, longitude + 100, "monk"),
            Entity(latitude + 200, longitude + 200, "monk"),
            Entity(latitude, longitude + 500, "button") >>
    ELSE << Entity(latitude + 500, longitude, "monk"),
            Entity(latitude, longitude + 500, "button") >>

\* (a variant that sets the origin and leaves the entity list alone)
OnFixOriginOnly(b, st, pos) == [origin |-> pos, objects |-> st.objects]

\* the success callback of getCurrentPosition: setOrigin and setObjects, on
\* the pair (origin, objects); it reads no state
OnFix(b, st, pos) ==
    [origin |-> pos, objects |-> Constellation(b, pos[1], pos[2])]

-----------------------------------------------------------------------------
(* Render *)

\* the reference point the render projects against: the constant in App.jsx,
\* the origin state in part_000
ProjectionOrigin(b, o) == IF b = "App" THEN WORLD_ORIGIN ELSE o

\* objects.map(...): one placement per object
Placements(b, o, objs) ==
    LET ref == ProjectionOrigin(b, o)
    IN [i \in 1..Len(objs) |->
          [type |-> objs[i].type,
           lat |-> objs[i].lat,
           lon |-> objs[i].lon,
           position |-> latLonToOffset(ref[1], ref[2], objs[i].lat, objs[i].lon)]]

\* rotation of the scene root group, in degrees (degToRad scales it by pi/180)
SceneYaw(heading, initialHeading) == -OrZero(initialHeading)

\* CompassOverlay: the needle angle and the text under it
NoOverlay == [shown |-> FALSE, needle |-> 0, text |-> "", value |-> NULL]

CompassOverlay(heading) ==
    [shown |-> TRUE,
     needle |-> OrZero(heading),
     text |-> IF heading # NULL THEN "toFixed" ELSE "Calibrating",
     value |-> IF heading # NULL THEN heading ELSE NULL]

\* nothing is on screen before the first render and after teardown
NoUi ==
    [view |-> "none", sceneYawDegrees |-> 0, placements |-> <<>>,
     overlay |-> NoOverlay, heading |-> NULL, initialHeading |-> NULL]

\* (a variant without the early return)
ShowsSceneAlways(o) == TRUE

\* if (!origin) return <div>Getting GPS...</div>
ShowsScene(o) == o # NullOrigin

\* the body of App: what one render commits.  heading and initialHeading are
\* kept with the output: the effects of this render close over them
AppRender(b, o, objs, heading, initialHeading) ==
    IF ~ShowsScene(o)
    THEN [view |-> "gps", sceneYawDegrees |-> 0, placements |-> <<>>,
          overlay |-> NoOverlay, heading |-> heading,
          initialHeading |-> initialHeading]
    ELSE [view |-> "scene",
          sceneYawDegrees |-> SceneYaw(heading, initialHeading),
          placements |-> Placements(b, o, objs),
          overlay |-> CompassOverlay(heading),
          heading |-> heading,
          initialHeading |-> initialHeading]

\* (a variant whose effects have no dependency arrays)
EffectsToRunEveryRender(m, prev, heading, initialHeading) ==
    {"orientation", "geolocation", "capture"}

\* the passive effects a commit schedules: all three on mount, afterwards those
\* whose dependency arrays changed ([initialHeading], [], [heading, initialHeading])
EffectsToRun(m, prev, heading, initialHeading) ==
    IF m = "no" THEN {"orientation", "geolocation", "capture"}
    ELSE (IF heading # prev.heading THEN {"orientation"} ELSE {})
         \cup (IF heading # prev.heading \/ initialHeading # prev.initialHeading
               THEN {"capture"} ELSE {})

-----------------------------------------------------------------------------
(* The state machine *)

\* before and originBefore are the calibrated heading and the origin the step
\* started from; invoked counts the callbacks the step called
Op(op, src, e, pos, err, invoked) ==
    [op |-> op, src |-> src, e |-> e, pos |-> pos, err |-> err,
     before |-> hookHeading, originBefore |-> origin, invoked |-> invoked]

\* no direct call of the projector is under way
NoProjection ==
    [lat0 |-> 0, lon0 |-> 0, lat |-> 0, lon |-> 0, done |-> FALSE, result |-> <<>>]

\* the state after the module is loaded, before React renders App
Init ==
    /\ projection = NoProjection
    /\ build \in {"App", "part_000"}
    /\ hookHeading = NULL
    /\ appHeading = NULL
    /\ origin = NullOrigin
    /\ objects = <<>>
    /\ listeners = {}
    /\ effectRuns = 0
    /\ geoStatus = "idle"
    /\ geoRequests = 0
    /\ mounted = "no"
    /\ dirty = FALSE
    /\ pendingEffects = {}
    /\ ui = NoUi
    /\ lastOp = [op |-> "init", src |-> "", e |-> NoSample, pos |-> NullOrigin, err |-> "",
                 before |-> NULL, originBefore |-> NullOrigin, invoked |-> 0]

\* React renders App (the first time, or because a state update is pending)
\* and commits the output; pending passive effects are flushed before a render
Render ==
    /\ mounted # "gone"
    /\ mounted = "no" \/ dirty
    /\ pendingEffects = {}
    /\ ui' = AppRender(build, origin, objects, hookHeading, appHeading)
    /\ pendingEffects' = EffectsToRun(mounted, ui, hookHeading, appHeading)
    /\ mounted' = "yes"
    /\ dirty' = FALSE
    /\ lastOp' = Op("render", "", NoSample, NullOrigin, "", 0)
    /\ UNCHANGED <<projection, build, hookHeading, appHeading, origin, objects, listeners,
                   effectRuns, geoStatus, geoRequests>>

\* the clean-up of the orientation effect: both removeEventListener calls on
\* the handler of the previous run
\* (a variant whose clean-up removes nothing)
EffectCleanupNone(ls, id) == ls

EffectCleanup(ls, id) == {l \in ls : l.id # id}

\* the body of the orientation effect: a new handleOrientation closing over
\* the rendered initialHeading, added to both sources
EffectSubscribe(ls, id, captured) ==
    ls \cup {Listener(src, id, captured) : src \in Sources}

\* the capture effect: if (heading && initialHeading === null)
CapturesHeading(heading, initialHeading) ==
    Truthy(heading) /\ initialHeading = NULL

\* React flushes the passive effects of the last commit: the clean-ups of the
\* effects that run again, then the effect bodies in declaration order
FlushEffects ==
    /\ mounted = "yes"
    /\ pendingEffects # {}
    /\ "orientation" \in pendingEffects => effectRuns < MaxEffectRuns
    /\ IF "orientation" \in pendingEffects
       THEN /\ listeners' = EffectSubscribe(EffectCleanup(listeners, effectRuns),
                                            effectRuns + 1, ui.heading)
            /\ effectRuns' = effectRuns + 1
       ELSE UNCHANGED <<listeners, effectRuns>>
    /\ IF "geolocation" \in pendingEffects
       THEN /\ geoStatus' = "pending"
            /\ geoRequests' = geoRequests + 1
       ELSE UNCHANGED <<geoStatus, geoRequests>>
    /\ IF "capture" \in pendingEffects /\ CapturesHeading(ui.heading, ui.initialHeading)
       THEN /\ appHeading' = ui.heading
            /\ dirty' = TRUE
       ELSE UNCHANGED <<appHeading, dirty>>
    /\ pendingEffects' = {}
    /\ lastOp' = Op("effects", "", NoSample, NullOrigin, "", 0)
    /\ UNCHANGED <<projection, build, hookHeading, origin, objects, mounted, ui>>

\* the browser fires an orientation event of type src carrying sample e
DeliverSample(src, e) ==
    LET on == {l \in listeners : l.type = src}
        st == Dispatch({l.id : l \in on}, src, e,
                       [heading |-> hookHeading, ls |-> listeners])
    IN /\ hookHeading' = st.heading
       /\ listeners' = st.ls
       /\ dirty' = (dirty \/ st.heading # hookHeading)
       /\ lastOp' = Op("sample", src, e, NullOrigin, "", Cardinality(on))
       /\ UNCHANGED <<projection, build, appHeading, origin, objects, effectRuns, geoStatus,
                      geoRequests, mounted, pendingEffects, ui>>

\* the success callback applied to fix pos; React drops updates of a
\* component that is no longer mounted
ApplyFix(pos) ==
    LET st == OnFix(build, [origin |-> origin, objects |-> objects], pos)
    IN IF mounted = "yes"
       THEN /\ origin' = st.origin
            /\ objects' = st.objects
            /\ dirty' = TRUE
       ELSE UNCHANGED <<origin, objects, dirty>>

\* (a variant whose success callback also resets the calibrated heading)
GeoSuccessRecalibrates(pos) ==
    /\ geoStatus = "pending"
    /\ geoStatus' = "success"
    /\ ApplyFix(pos)
    /\ hookHeading' = NULL
    /\ lastOp' = Op("geoSuccess", "", NoSample, pos, "", 1)
    /\ UNCHANGED <<projection, build, appHeading, listeners, effectRuns,
                   geoRequests, mounted, pendingEffects, ui>>

\* the pending position request succeeds with fix pos
GeoSuccess(pos) ==
    /\ geoStatus = "pending"
    /\ geoStatus' = "success"
    /\ ApplyFix(pos)
    /\ lastOp' = Op("geoSuccess", "", NoSample, pos, "", 1)
    /\ UNCHANGED <<projection, build, hookHeading, appHeading, listeners, effectRuns,
                   geoRequests, mounted, pendingEffects, ui>>

\* the pending position request fails: (err) => console.error(err)
GeoError(err) ==
    /\ geoStatus = "pending"
    /\ geoStatus' = "error"
    /\ lastOp' = Op("geoError", "", NoSample, NullOrigin, err, 1)
    /\ UNCHANGED <<projection, build, hookHeading, appHeading, origin, objects, listeners,
                   effectRuns, geoRequests, mounted, dirty, pendingEffects, ui>>

\* teardown: React unmounts App and runs the clean-up of the orientation effect
Unmount ==
    /\ mounted = "yes"
    /\ pendingEffects = {}
    /\ mounted' = "gone"
    /\ listeners' = EffectCleanup(listeners, effectRuns)
    /\ ui' = NoUi
    /\ dirty' = FALSE
    /\ lastOp' = Op("unmount", "", NoSample, NullOrigin, "", 0)
    /\ UNCHANGED <<projection, build, hookHeading, appHeading, origin, objects, effectRuns,
                   geoStatus, geoRequests, pendingEffects>>

Next ==
    \/ Render
    \/ FlushEffects
    \/ \E src \in Sources, e \in Samples : DeliverSample(src, e)
    \/ \E pos \in Fixes : GeoSuccess(pos)
    \/ \E err \in GeoErrors : GeoError(err)
    \/ Unmount

Spec == Init /\ [][Next]_vars

\* the Position Tracker's contract driven as its tests drive it: onFix is
\* called again with a later fix after the first one was accepted
Redeliver(pos) ==
    /\ geoStatus = "success"
    /\ mounted = "yes"
    /\ ApplyFix(pos)
    /\ lastOp' = Op("geoSuccess", "", NoSample, pos, "", 2)
    /\ UNCHANGED <<projection, build, hookHeading, appHeading, listeners, effectRuns,
                   geoStatus, geoRequests, mounted, pendingEffects, ui>>

NextOnFix ==
    \/ Next
    \/ \E pos \in Fixes : Redeliver(pos)

SpecOnFix == Init /\ [][NextOnFix]_vars

-----------------------------------------------------------------------------
(* The Geodetic Projector called on its own *)

ProbeLatitudes ==
    {WORLD_ORIGIN[1]} \cup {s * i * 150000000 : s \in {-1, 1}, i \in 0..MaxProbeLatIdx}

ProbeLongitudes == {0, WORLD_ORIGIN[2]}

ProbeSteps == {500 * j : j \in (-MaxProbeStep)..MaxProbeStep}

\* App is not rendered; the arguments of one call are chosen
InitProject ==
    /\ \E lat0 \in ProbeLatitudes, lon0 \in ProbeLongitudes,
          dLat \in ProbeSteps, dLon \in ProbeSteps :
          projection = [lat0 |-> lat0, lon0 |-> lon0, lat |-> lat0 + dLat,
                        lon |-> lon0 + dLon, done |-> FALSE, result |-> <<>>]
    /\ build \in {"App", "part_000"}
    /\ hookHeading = NULL
    /\ appHeading = NULL
    /\ origin = NullOrigin
    /\ objects = <<>>
    /\ listeners = {}
    /\ effectRuns = 0
    /\ geoStatus = "idle"
    /\ geoRequests = 0
    /\ mounted = "no"
    /\ dirty = FALSE
    /\ pendingEffects = {}
    /\ ui = NoUi
    /\ lastOp = [op |-> "init", src |-> "", e |-> NoSample, pos |-> NullOrigin, err |-> "",
                 before |-> NULL, originBefore |-> NullOrigin, invoked |-> 0]

\* the call returns
Project ==
    /\ ~projection.done
    /\ projection' = [projection EXCEPT
                         !.done = TRUE,
                         !.result = latLonToOffset(projection.lat0, projection.lon0,
                                                   projection.lat, projection.lon)]
    /\ UNCHANGED <<build, hookHeading, appHeading, origin, objects, listeners,
                   effectRuns, geoStatus, geoRequests, mounted, dirty,
                   pendingEffects, ui, lastOp>>

NextProject == Project

SpecProject == InitProject /\ [][NextProject]_vars

TypeOK ==
    /\ build \in {"App", "part_000"}
    /\ hookHeading.t \in {"null", "num", "NaN"}
    /\ appHeading.t \in {"null", "num"}
    /\ origin \in {NullOrigin} \cup Fixes
    /\ effectRuns \in 0..MaxEffectRuns
    /\ geoStatus \in {"idle", "pending", "success", "error"}
    /\ mounted \in {"no", "yes", "gone"}
    /\ dirty \in BOOLEAN
    /\ pendingEffects \subseteq {"orientation", "geolocation", "capture"}
    /\ ui.view \in {"none", "gps", "scene"}

-----------------------------------------------------------------------------
(* Orientation Calibrator: properties *)

\* the last step delivered a sample to a subscribed handler of the hook
SampleHandled == lastOp.op = "sample" /\ lastOp.invoked > 0

\* a sample that yields a compass angle: a non-zero compass heading, or an
\* alpha that is not null
YieldsAngle(e) == Truthy(e.webkitCompassHeading) \/ e.alpha # NULL

C2_UnsubscribedOnceCalibrated == IsNum(hookHeading) => listeners = {}

\* C3: a sample carrying a compass heading h (0 included), handled while the
\* hook is uncalibrated, calibrates the heading to exactly h.
C3_CompassHeadingAsIs ==
    ( /\ SampleHandled
      /\ lastOp.before = NULL
      /\ IsNum(lastOp.e.webkitCompassHeading) )
    => hookHeading = lastOp.e.webkitCompassHeading

\* C4: a sample carrying no compass heading but an alpha angle a, handled
\* while the hook is uncalibrated, calibrates the heading to 360 - a.
C4_AlphaComplement ==
    ( /\ SampleHandled
      /\ lastOp.before = NULL
      /\ ~IsNum(lastOp.e.webkitCompassHeading)
      /\ IsNum(lastOp.e.alpha) )
    => hookHeading = Num(360 - lastOp.e.alpha.v)

\* C4 witness: alpha 350 handled by the uncalibrated hook gave heading 10
C4_Witness ==
    /\ SampleHandled
    /\ lastOp.before = NULL
    /\ lastOp.e.webkitCompassHeading = UNDEF
    /\ lastOp.e.alpha = Num(350)
    /\ hookHeading = Num(10)

\* C5: a sample with neither a compass heading nor an alpha angle (each null
\* or absent), handled while the hook is uncalibrated, is discarded: the
\* heading stays null and both sources stay subscribed.
C5_EmptySampleDiscarded ==
    ( /\ SampleHandled
      /\ lastOp.before = NULL
      /\ ~IsNum(lastOp.e.webkitCompassHeading)
      /\ ~IsNum(lastOp.e.alpha) )
    => /\ hookHeading = NULL
       /\ \A src \in Sources : \E l \in listeners : l.type = src

-----------------------------------------------------------------------------
(* Position Tracker and Scene Composer: properties *)

C7_PlacedAgainstFix ==
    ui.view = "scene" =>
        \A i \in 1..Len(ui.placements) :
            LET p == ui.placements[i]
            IN /\ p.position = latLonToOffset(origin[1], origin[2], p.lat, p.lon)
               /\ <<p.lat, p.lon>> = origin => p.position = <<0, 0, 0>>

\* C8: while no successful fix has arrived (origin is null) nothing is placed
\* and a mounted App shows the awaiting-location view; the scene is on screen
\* only after a fix has been accepted.
C8_NothingPlacedBeforeFix ==
    /\ origin = NullOrigin =>
          /\ ui.placements = <<>>
          /\ ui.view # "scene"
          /\ mounted = "yes" => ui.view = "gps"
    /\ ui.view = "scene" => origin # NullOrigin /\ geoStatus = "success"

\* C8 witness: App is mounted and calibrated, the fix is still awaited, and the
\* awaiting-location view is on screen
C8_Witness ==
    /\ mounted = "yes"
    /\ geoStatus = "pending"
    /\ origin = NullOrigin
    /\ IsNum(ui.heading)
    /\ ui.view = "gps"

\* C9: after the position request has failed, every step (orientation
\* samples, re-renders, effects) leaves the request failed, the origin null,
\* the entity list empty, the scene off screen, and issues no new request.
C9_FailureIsTerminal ==
    [][ geoStatus = "error" =>
          /\ geoStatus' = "error"
          /\ geoRequests' = geoRequests
          /\ origin' = NullOrigin
          /\ objects' = <<>>
          /\ ui'.placements = <<>>
          /\ ui'.view # "scene"
          /\ mounted' = "yes" => ui'.view = "gps"
      ]_vars

\* C9 witness: the request failed, a sample then calibrated the hook, and the
\* re-render still shows the awaiting-location view with one request issued
C9_Witness ==
    /\ geoStatus = "error"
    /\ geoRequests = 1
    /\ lastOp.op = "render"
    /\ IsNum(ui.heading)
    /\ ui.view = "gps"
    /\ origin = NullOrigin

\* C10: whenever the scene is on screen, the yaw of the scene root is minus
\* the calibrated heading the hook returned to that render, and 0 if that
\* heading is not a number of degrees yet.  Yaws are compared up to whole
\* turns, so a heading of 360 with yaw 0 does not count as a difference.
C10_YawIsMinusHeading ==
    ui.view = "scene" =>
        (ui.sceneYawDegrees + (IF IsNum(ui.heading) THEN ui.heading.v ELSE 0)) % 360 = 0

-----------------------------------------------------------------------------
(* Overlay Presenter: properties *)

\* C11: whenever a mounted App has rendered with a null calibrated heading,
\* the overlay is on screen and shows the calibrating indicator; a numeric
\* value is on screen only when the rendered heading is not null.
C11_CalibratingShown ==
    /\ (mounted = "yes" /\ ui.heading = NULL) =>
          ui.overlay.shown /\ ui.overlay.text = "Calibrating"
    /\ ui.overlay.text = "toFixed" => ui.heading # NULL

-----------------------------------------------------------------------------
(* Geodetic Projector: properties *)

\* C12: projecting a coordinate against itself gives <<0, 0, 0>>, and a target
\* on the origin's meridian (t.lon = o.lon) has x = 0, at every origin
\* latitude of the input set.
C12_ProjectorZeroes ==
    projection.done =>
        /\ (projection.lat = projection.lat0 /\ projection.lon = projection.lon0)
              => projection.result = <<0, 0, 0>>
        /\ projection.lon = projection.lon0 => projection.result[1] = 0

\* C12 witness: a target due north of an origin off the equator was projected:
\* x is 0 and z is not
C12_Witness ==
    /\ projection.done
    /\ projection.lat0 # 0
    /\ projection.lon = projection.lon0
    /\ projection.lat > projection.lat0
    /\ projection.result[1] = 0
    /\ projection.result[3] < 0

-----------------------------------------------------------------------------
(* Cancellation: properties *)

\* the handlers of the latest run of the orientation effect still registered
CurrentHandlers == {l \in listeners : l.id = effectRuns}

\* C13: unsubscribing is idempotent and leaves nothing behind.  After teardown
\* no handler is registered on either source; only handlers of the latest
\* effect run are ever registered; and a clean-up that runs after the handler
\* already removed itself (at teardown, or before the effect runs again)
\* removes nothing more.
C13_UnsubscribeIdempotent ==
    [][ /\ mounted' = "gone" => listeners' = {}
        /\ \A l \in listeners' : l.id = effectRuns'
        /\ (lastOp'.op = "unmount" /\ CurrentHandlers = {}) => listeners' = listeners
        /\ (lastOp'.op = "effects" /\ effectRuns' # effectRuns /\ CurrentHandlers = {})
              => {l \in listeners' : l.id # effectRuns'} = listeners
      ]_vars

\* C13 witness: teardown came after the calibrating handler had removed its
\* listeners and before the effect ran again
C13_Witness ==
    /\ lastOp.op = "unmount"
    /\ IsNum(lastOp.before)
    /\ effectRuns = 1
    /\ mounted = "gone"
    /\ listeners = {}

-----------------------------------------------------------------------------
(* Ownership of the shared values: properties *)

\* the displacements of the entities from the fix, in 1e-7 degree
EntityOffsets ==
    {<<0, 0>>, <<500, 0>>, <<1000, 1000>>, <<100, 100>>, <<200, 200>>, <<0, 500>>}

\* C14: the origin and the entity list are created together.  The origin is
\* null exactly when the list is empty; the fix a mounted App accepts becomes
\* the origin; and then the list is not empty and every entity lies at one of
\* the fixed small displacements from the origin.
C14_OriginWithEntities ==
    /\ origin = NullOrigin <=> objects = <<>>
    /\ (lastOp.op = "geoSuccess" /\ mounted = "yes") => origin = lastOp.pos
    /\ origin # NullOrigin =>
          /\ Len(objects) > 0
          /\ \A i \in 1..Len(objects) :
                <<objects[i].lat - origin[1], objects[i].lon - origin[2]>> \in EntityOffsets

\* C14 witness: a fix other than the constant WORLD_ORIGIN was accepted
C14_Witness ==
    /\ lastOp.op = "geoSuccess"
    /\ lastOp.originBefore = NullOrigin
    /\ origin = lastOp.pos
    /\ origin # WORLD_ORIGIN
    /\ Len(objects) > 1

\* C15: each shared value has one writer.  Handling an orientation sample
\* leaves the origin and the entity list as they were; handling the success or
\* the failure of the position request leaves both calibrated headings (the
\* hook's and App's copy) as they were.
C15_SingleWriter ==
    [][ /\ lastOp'.op = "sample" => (origin' = origin /\ objects' = objects)
        /\ lastOp'.op \in {"geoSuccess", "geoError"} =>
              (hookHeading' = hookHeading /\ appHeading' = appHeading)
      ]_vars

\* C15 witness: a fix was accepted after the heading had been calibrated and
\* copied by App, and both headings are still there
C15_Witness ==
    /\ lastOp.op = "geoSuccess"
    /\ origin # NullOrigin
    /\ IsNum(hookHeading)
    /\ hookHeading = lastOp.before
    /\ appHeading = hookHeading

\* React has nothing left to do: no update awaits a render, no effect a flush
Quiescent == mounted = "yes" /\ ~dirty /\ pendingEffects = {}

\* C16: the overlay and the scene use the same heading.  App's copy of the
\* heading, once set, equals the heading of the hook (which never changes
\* again); and once the hook is calibrated with h and React has rendered and
\* flushed everything that calibration scheduled, App's copy is h.
C16_SceneFollowsCalibrator ==
    /\ appHeading # NULL => appHeading = hookHeading
    /\ (Quiescent /\ hookHeading # NULL) => appHeading = hookHeading

====
